---- MODULE Spec2Model ----
(***************************************************************************)
(* Model of the Chuck Norris jokes application: the jokes slice of the     *)
(* Redux store (src/store/slices/jokesSlice), its four async thunks, and   *)
(* the three components that dispatch them (HomeWrapper, CategoriesSelect, *)
(* SearchBar).                                                             *)
(*                                                                         *)
(* JavaScript is single threaded: every action below is one synchronous    *)
(* task (an effect, an event handler, or the continuation of a thunk after *)
(* its network call settled).  The network is the environment: the outcome *)
(* of each fetch is chosen nondeterministically when the thunk resumes.    *)
(***************************************************************************)
EXTENDS Integers, Sequences, FiniteSets, TLC

(***************************************************************************)
(* Bounds of the model.                                                    *)
(***************************************************************************)
\* Total number of thunks dispatched in one behaviour (two of them at mount).
MaxRequests == 4
\* Longest result list the search endpoint answers with.
MaxResults == 2
\* Total number of thunks dispatched in one behaviour of the fair
\* specification, under which liveness is checked.
MaxFairRequests == 3

(***************************************************************************)
(* JavaScript values.                                                      *)
(***************************************************************************)
Null == "null"
Undefined == "undefined"

\* JavaScript truthiness of a string-or-null-or-undefined value.
Truthy(v) == v \notin {Null, Undefined, ""}

\* Property access on a parsed JSON object: a missing property is undefined.
Get(obj, field) == IF field \in DOMAIN obj THEN obj[field] ELSE Undefined

\* Joke texts and category lists the API may answer with.
JokeTexts == {"X", "Y"}
CategoryLists == {<<"animal", "career">>, <<"career", "animal">>}

\* Characters of a search query; a query is a sequence of characters.
Space == " "
\* The texts typed into the search input: empty, whitespace only, and a word
\* padded with whitespace.
Queries == {<<>>, <<Space>>, <<Space, "a", Space>>}

\* String.prototype.trim: strip leading and trailing whitespace.
RECURSIVE TrimStart(_)
TrimStart(s) == IF s # <<>> /\ Head(s) = Space THEN TrimStart(Tail(s)) ELSE s

RECURSIVE TrimEnd(_)
TrimEnd(s) ==
  IF s # <<>> /\ s[Len(s)] = Space THEN TrimEnd(SubSeq(s, 1, Len(s) - 1)) ELSE s

\* Mutant: the query is not trimmed.
trim_none(s) == s

trim(s) == TrimEnd(TrimStart(s))

(***************************************************************************)
(* The environment: what `await fetch(url)` followed by `await res.json()` *)
(* can produce.                                                            *)
(***************************************************************************)
FetchThrows == [tag |-> "fetchThrows", message |-> "Failed to fetch"]
JsonThrows == [tag |-> "jsonThrows", message |-> "Unexpected token"]
Data(d) == [tag |-> "data", data |-> d]

\* An error body of the API: a JSON object with neither `value` nor `result`.
ErrorBody == [status |-> "404"]

JokeBodies == {[value |-> j] : j \in JokeTexts} \cup {ErrorBody}
ResultLists == UNION {[1..n -> {[value |-> j] : j \in JokeTexts}] : n \in 0..MaxResults}
SearchBodies == {[result |-> r] : r \in ResultLists} \cup {ErrorBody}

JokeResponses == {FetchThrows, JsonThrows} \cup {Data(d) : d \in JokeBodies}
SearchResponses == {FetchThrows, JsonThrows} \cup {Data(d) : d \in SearchBodies}
CategoriesResponses == {FetchThrows, JsonThrows} \cup {Data(d) : d \in CategoryLists}

(***************************************************************************)
(* createAsyncThunk: what a payload creator settles with.                  *)
(***************************************************************************)
\* The payload creator returned `p`.
Fulfill(p) == [status |-> "fulfilled", payload |-> p]
\* The payload creator threw an error with message `m`.
Throw(m) == [status |-> "rejected", payload |-> Undefined, message |-> m]
\* The payload creator returned rejectWithValue(p).
rejectWithValue(p) == [status |-> "rejected", payload |-> p, message |-> "Rejected"]

VARIABLES
  jokes,       \* state.jokes: the JokesState of the store
  requests,    \* the thunks dispatched so far, by requestId: kind, arg, status
  lastAction,  \* the last action the store's reducer was run with
  lastJokeAction, \* the last fulfilled or rejected action of a joke thunk
  query,       \* SearchBar: local state `query`
  selected,    \* CategoriesSelect: local state `selected`
  mounted      \* which mount effects have run

vars == <<requests, jokes, lastAction, lastJokeAction, query, selected, mounted>>


(***************************************************************************)
(* The payload creators of the four thunks.  `response` is what the        *)
(* network answered; `random` is the value of                              *)
(* Math.floor(Math.random() * data.result.length).                         *)
(***************************************************************************)
fetchRandomJoke(response) ==
  IF response.tag = "data"
    THEN Fulfill(Get(response.data, "value"))
    ELSE Throw(response.message)

fetchJokeByCategory(category, response) ==
  IF response.tag = "data"
    THEN Fulfill([joke |-> Get(response.data, "value"), category |-> category])
    ELSE Throw(response.message)

\* Mutant: the empty result list is not checked, so reading `.value` of the
\* missing element throws.
searchJokes_noEmptyCheck(searchQuery, response, random) ==
  IF response.tag # "data" THEN Throw(response.message)
  ELSE IF "result" \notin DOMAIN response.data
    THEN Throw("Cannot read properties of undefined")
  ELSE IF Len(response.data.result) = 0
    THEN Throw("Cannot read properties of undefined")
  ELSE Fulfill(Get(response.data.result[random + 1], "value"))

searchJokes(searchQuery, response, random) ==
  IF response.tag # "data" THEN Throw(response.message)
  ELSE IF "result" \notin DOMAIN response.data
    \* data.result is undefined: reading its length throws a TypeError
    THEN Throw("Cannot read properties of undefined")
  ELSE IF Len(response.data.result) = 0
    THEN rejectWithValue("No joke found for this query")
  ELSE Fulfill(Get(response.data.result[random + 1], "value"))

fetchCategories(response) ==
  IF response.tag = "data"
    THEN Fulfill(response.data)
    ELSE Throw(response.message)

\* The values Math.floor(Math.random() * data.result.length) can take.
RandomIndices(response) ==
  IF response.tag = "data" /\ "result" \in DOMAIN response.data
     /\ Len(response.data.result) > 0
    THEN 0..(Len(response.data.result) - 1)
    ELSE {0}

(***************************************************************************)
(* The actions createAsyncThunk dispatches.  An action type is the pair    *)
(* of the thunk's type prefix and the lifecycle phase.                     *)
(***************************************************************************)
Thunks == {"jokes/fetchRandomJoke", "jokes/fetchJokeByCategory",
           "jokes/searchJokes", "jokes/fetchCategories"}
JokeThunks == Thunks \ {"jokes/fetchCategories"}

pending(thunk, requestId, arg) ==
  [type |-> <<thunk, "pending">>, requestId |-> requestId, arg |-> arg,
   payload |-> Undefined]

\* The fulfilled or rejected action of a settled payload creator.
settled(thunk, requestId, arg, result) ==
  IF result.status = "fulfilled"
    THEN [type |-> <<thunk, "fulfilled">>, requestId |-> requestId, arg |-> arg,
          payload |-> result.payload]
    ELSE [type |-> <<thunk, "rejected">>, requestId |-> requestId, arg |-> arg,
          payload |-> result.payload, error |-> [message |-> result.message]]

(***************************************************************************)
(* The jokes slice.                                                        *)
(***************************************************************************)
initialState ==
  [value |-> Null, category |-> Null, categories |-> <<>>, error |-> Null,
   loading |-> FALSE, hasSearched |-> FALSE]

fetchRandomJoke_pending(state) ==
  [state EXCEPT !.loading = TRUE, !.error = Null]

\* Mutant: the first joke does not mark the first fetch as done.
fetchRandomJoke_fulfilled_noHasSearched(state, action) ==
  [state EXCEPT !.value = action.payload, !.category = Null, !.error = Null,
                !.loading = FALSE]

fetchRandomJoke_fulfilled(state, action) ==
  [state EXCEPT !.value = action.payload, !.category = Null, !.error = Null,
                !.loading = FALSE, !.hasSearched = TRUE]

\* Mutant: the failure does not mark the first fetch as done.
fetchRandomJoke_rejected_noHasSearched(state) ==
  [state EXCEPT !.error = "Failed to fetch joke", !.value = Null,
                !.loading = FALSE]

fetchRandomJoke_rejected(state) ==
  [state EXCEPT !.error = "Failed to fetch joke", !.value = Null,
                !.loading = FALSE, !.hasSearched = TRUE]

fetchJokeByCategory_pending(state) ==
  [state EXCEPT !.loading = TRUE, !.error = Null]

\* Mutant: the category is cleared as for a random joke.
fetchJokeByCategory_fulfilled_noCategory(state, action) ==
  [state EXCEPT !.value = action.payload.joke, !.category = Null,
                !.error = Null, !.loading = FALSE, !.hasSearched = TRUE]

fetchJokeByCategory_fulfilled(state, action) ==
  [state EXCEPT !.value = action.payload.joke,
                !.category = action.payload.category, !.error = Null,
                !.loading = FALSE, !.hasSearched = TRUE]

\* Mutant: the failure keeps the joke of the previous request.
fetchJokeByCategory_rejected_keepsValue(state) ==
  [state EXCEPT !.error = "Failed to fetch joke", !.loading = FALSE,
                !.hasSearched = TRUE]

\* Mutant: the failure leaves loading on.
fetchJokeByCategory_rejected_keepsLoading(state) ==
  [state EXCEPT !.error = "Failed to fetch joke", !.value = Null,
                !.hasSearched = TRUE]

fetchJokeByCategory_rejected(state) ==
  [state EXCEPT !.error = "Failed to fetch joke", !.value = Null,
                !.loading = FALSE, !.hasSearched = TRUE]

\* Mutant: the error of the previous request is not cleared.
searchJokes_pending_keepsError(state) ==
  [state EXCEPT !.loading = TRUE]

\* Mutant: a new search resets hasSearched.
searchJokes_pending_resetsHasSearched(state) ==
  [state EXCEPT !.loading = TRUE, !.error = Null, !.hasSearched = FALSE]

searchJokes_pending(state) ==
  [state EXCEPT !.loading = TRUE, !.error = Null]

\* Mutant: the category of the previous joke is kept.
searchJokes_fulfilled_keepsCategory(state, action) ==
  [state EXCEPT !.value = action.payload, !.error = Null,
                !.loading = FALSE, !.hasSearched = TRUE]

\* Mutant: the error of an earlier failure is kept.
searchJokes_fulfilled_keepsError(state, action) ==
  [state EXCEPT !.value = action.payload, !.category = Null,
                !.loading = FALSE, !.hasSearched = TRUE]

searchJokes_fulfilled(state, action) ==
  [state EXCEPT !.value = action.payload, !.category = Null, !.error = Null,
                !.loading = FALSE, !.hasSearched = TRUE]

\* Mutant: the fallback is the message of the failure.
searchJokes_rejected_errorMessage(state, action) ==
  [state EXCEPT !.error = IF Truthy(action.payload) THEN action.payload
                          ELSE action.error.message,
                !.value = Null, !.loading = FALSE, !.hasSearched = TRUE]

\* Mutant: the failure keeps the joke of the previous request.
searchJokes_rejected_keepsValue(state, action) ==
  [state EXCEPT !.error = IF Truthy(action.payload) THEN action.payload
                          ELSE "Failed to fetch joke",
                !.loading = FALSE, !.hasSearched = TRUE]

\* Mutant: the failure leaves loading on.
searchJokes_rejected_keepsLoading(state, action) ==
  [state EXCEPT !.error = IF Truthy(action.payload) THEN action.payload
                          ELSE "Failed to fetch joke",
                !.value = Null, !.hasSearched = TRUE]

searchJokes_rejected(state, action) ==
  [state EXCEPT !.error = IF Truthy(action.payload) THEN action.payload
                          ELSE "Failed to fetch joke",
                !.value = Null, !.loading = FALSE, !.hasSearched = TRUE]

fetchCategories_pending(state) ==
  [state EXCEPT !.loading = TRUE, !.error = Null]

\* Mutant: the categories count as a fetched joke.
fetchCategories_fulfilled_setsHasSearched(state, action) ==
  [state EXCEPT !.categories = action.payload, !.loading = FALSE,
                !.error = Null, !.hasSearched = TRUE]

\* Mutant: the error of an earlier joke failure is kept.
fetchCategories_fulfilled_keepsError(state, action) ==
  [state EXCEPT !.categories = action.payload, !.loading = FALSE]

fetchCategories_fulfilled(state, action) ==
  [state EXCEPT !.categories = action.payload, !.loading = FALSE, !.error = Null]

\* Mutant: the failure clears the joke as a joke failure does.
fetchCategories_rejected_clearsValue(state) ==
  [state EXCEPT !.error = "Failed to fetch categories", !.value = Null,
                !.loading = FALSE]

fetchCategories_rejected(state) ==
  [state EXCEPT !.error = "Failed to fetch categories", !.loading = FALSE]

\* jokesSlice.reducer: the case reducer registered for the action's type.
jokesReducer(state, action) ==
  CASE action.type = <<"jokes/fetchRandomJoke", "pending">> ->
         fetchRandomJoke_pending(state)
    [] action.type = <<"jokes/fetchRandomJoke", "fulfilled">> ->
         fetchRandomJoke_fulfilled(state, action)
    [] action.type = <<"jokes/fetchRandomJoke", "rejected">> ->
         fetchRandomJoke_rejected(state)
    [] action.type = <<"jokes/fetchJokeByCategory", "pending">> ->
         fetchJokeByCategory_pending(state)
    [] action.type = <<"jokes/fetchJokeByCategory", "fulfilled">> ->
         fetchJokeByCategory_fulfilled(state, action)
    [] action.type = <<"jokes/fetchJokeByCategory", "rejected">> ->
         fetchJokeByCategory_rejected(state)
    [] action.type = <<"jokes/searchJokes", "pending">> ->
         searchJokes_pending(state)
    [] action.type = <<"jokes/searchJokes", "fulfilled">> ->
         searchJokes_fulfilled(state, action)
    [] action.type = <<"jokes/searchJokes", "rejected">> ->
         searchJokes_rejected(state, action)
    [] action.type = <<"jokes/fetchCategories", "pending">> ->
         fetchCategories_pending(state)
    [] action.type = <<"jokes/fetchCategories", "fulfilled">> ->
         fetchCategories_fulfilled(state, action)
    [] action.type = <<"jokes/fetchCategories", "rejected">> ->
         fetchCategories_rejected(state)
    [] OTHER -> state

(***************************************************************************)
(* The store and the thunks in flight.                                     *)
(***************************************************************************)
\* The requestIds of the thunks whose payload creator has not settled yet.
InFlight == {id \in DOMAIN requests : requests[id].status = "pending"}

\* dispatch(thunk(arg)): createAsyncThunk dispatches the pending action
\* synchronously and starts the payload creator.
Dispatch(thunk, arg) ==
  LET requestId == Len(requests) + 1
      action == pending(thunk, requestId, arg)
  IN /\ requests' = Append(requests,
                      [thunk |-> thunk, arg |-> arg, status |-> "pending"])
     /\ jokes' = jokesReducer(jokes, action)
     /\ lastAction' = action
     /\ UNCHANGED lastJokeAction

\* Mutant: a request-sequence token; the result of a joke request is dropped
\* when a later joke request has been dispatched.
Settle_dropsStale(requestId, result) ==
  LET action == settled(requests[requestId].thunk, requestId,
                        requests[requestId].arg, result)
      stale == /\ requests[requestId].thunk \in JokeThunks
               /\ \E later \in DOMAIN requests :
                    later > requestId /\ requests[later].thunk \in JokeThunks
  IN /\ requests' = [requests EXCEPT ![requestId].status = result.status]
     /\ jokes' = IF stale THEN jokes ELSE jokesReducer(jokes, action)
     /\ lastAction' = action
     /\ lastJokeAction' = IF requests[requestId].thunk \in JokeThunks
                            THEN action ELSE lastJokeAction

\* The payload creator of request `requestId` settled with `result`:
\* createAsyncThunk dispatches the fulfilled or the rejected action.
Settle(requestId, result) ==
  LET action == settled(requests[requestId].thunk, requestId,
                        requests[requestId].arg, result)
  IN /\ requests' = [requests EXCEPT ![requestId].status = result.status]
     /\ jokes' = jokesReducer(jokes, action)
     /\ lastAction' = action
     /\ lastJokeAction' = IF requests[requestId].thunk \in JokeThunks
                            THEN action ELSE lastJokeAction

Init ==
  /\ jokes = initialState
  /\ requests = <<>>
  /\ lastAction = [type |-> <<"@@redux", "INIT">>, requestId |-> 0,
                   arg |-> Undefined, payload |-> Undefined]
  /\ lastJokeAction = lastAction
  /\ query = <<>>
  /\ selected = ""
  /\ mounted = "none"

(***************************************************************************)
(* Mount.  React runs the effects of a child before those of its parent,   *)
(* both in the same synchronous commit: CategoriesSelect dispatches        *)
(* fetchCategories, then HomeWrapper dispatches fetchRandomJoke.           *)
(***************************************************************************)
CategoriesSelect_useEffect ==
  /\ mounted = "none"
  /\ Dispatch("jokes/fetchCategories", Undefined)
  /\ mounted' = "CategoriesSelect"
  /\ UNCHANGED <<query, selected>>

HomeWrapper_useEffect ==
  /\ mounted = "CategoriesSelect"
  /\ Dispatch("jokes/fetchRandomJoke", Undefined)
  /\ mounted' = "HomeWrapper"
  /\ UNCHANGED <<query, selected>>

(***************************************************************************)
(* SearchBar.                                                              *)
(***************************************************************************)
\* onChange of the search input.
setQuery(q) ==
  /\ mounted = "HomeWrapper"
  /\ query' = q
  /\ UNCHANGED <<requests, jokes, lastAction, lastJokeAction, selected, mounted>>

\* Submitting the form with an empty or whitespace-only query returns early.
handleSubmit_empty ==
  /\ mounted = "HomeWrapper"
  /\ Len(trim(query)) = 0
  /\ UNCHANGED vars

handleSubmit_dispatch ==
  /\ mounted = "HomeWrapper"
  /\ Len(trim(query)) # 0
  /\ Len(requests) < MaxRequests
  /\ Dispatch("jokes/searchJokes", query)
  /\ UNCHANGED <<query, selected, mounted>>

handleSubmit == handleSubmit_empty \/ handleSubmit_dispatch

(***************************************************************************)
(* CategoriesSelect.                                                       *)
(***************************************************************************)
\* The values of the <option>s rendered: the default one and the categories.
Options == {""} \cup {jokes.categories[i] : i \in DOMAIN jokes.categories}

\* Mutant: the default option is not filtered out.
handleChange_noGuard(value) ==
  /\ mounted = "HomeWrapper"
  /\ selected' = value
  /\ Len(requests) < MaxRequests
  /\ Dispatch("jokes/fetchJokeByCategory", value)
  /\ UNCHANGED <<query, mounted>>

handleChange(value) ==
  /\ mounted = "HomeWrapper"
  /\ selected' = value
  /\ IF Truthy(value)
       THEN /\ Len(requests) < MaxRequests
            /\ Dispatch("jokes/fetchJokeByCategory", value)
       ELSE UNCHANGED <<requests, jokes, lastAction, lastJokeAction>>
  /\ UNCHANGED <<query, mounted>>

(***************************************************************************)
(* The network answers a request and its thunk runs to completion.         *)
(***************************************************************************)
ResolveFetchRandomJoke(requestId) ==
  /\ mounted = "HomeWrapper"
  /\ requestId \in InFlight
  /\ requests[requestId].thunk = "jokes/fetchRandomJoke"
  /\ \E response \in JokeResponses :
       Settle(requestId, fetchRandomJoke(response))
  /\ UNCHANGED <<query, selected, mounted>>

ResolveFetchJokeByCategory(requestId) ==
  /\ mounted = "HomeWrapper"
  /\ requestId \in InFlight
  /\ requests[requestId].thunk = "jokes/fetchJokeByCategory"
  /\ \E response \in JokeResponses :
       Settle(requestId, fetchJokeByCategory(requests[requestId].arg, response))
  /\ UNCHANGED <<query, selected, mounted>>

ResolveSearchJokes(requestId) ==
  /\ mounted = "HomeWrapper"
  /\ requestId \in InFlight
  /\ requests[requestId].thunk = "jokes/searchJokes"
  /\ \E response \in SearchResponses :
       \E random \in RandomIndices(response) :
         Settle(requestId, searchJokes(requests[requestId].arg, response, random))
  /\ UNCHANGED <<query, selected, mounted>>

ResolveFetchCategories(requestId) ==
  /\ mounted = "HomeWrapper"
  /\ requestId \in InFlight
  /\ requests[requestId].thunk = "jokes/fetchCategories"
  /\ \E response \in CategoriesResponses :
       Settle(requestId, fetchCategories(response))
  /\ UNCHANGED <<query, selected, mounted>>

Next ==
  \/ CategoriesSelect_useEffect
  \/ HomeWrapper_useEffect
  \/ \E q \in Queries : setQuery(q)
  \/ handleSubmit_empty
  \/ handleSubmit_dispatch
  \/ \E value \in Options : handleChange(value)
  \/ \E requestId \in 1..MaxRequests : ResolveFetchRandomJoke(requestId)
  \/ \E requestId \in 1..MaxRequests : ResolveFetchJokeByCategory(requestId)
  \/ \E requestId \in 1..MaxRequests : ResolveSearchJokes(requestId)
  \/ \E requestId \in 1..MaxRequests : ResolveFetchCategories(requestId)

Spec == Init /\ [][Next]_vars

(***************************************************************************)
(* Fairness.                                                               *)
(***************************************************************************)
\* The transport is fair: the network call of a request in flight settles
\* (fetch has no cancellation; it resolves or rejects), and the continuation
\* of its thunk then runs.
Resolve(requestId) ==
  \/ ResolveFetchRandomJoke(requestId)
  \/ ResolveFetchJokeByCategory(requestId)
  \/ ResolveSearchJokes(requestId)
  \/ ResolveFetchCategories(requestId)

\* The two mount effects run in one synchronous commit, so the second one
\* always follows the first.
\* The steps of Next, with the number of requests bounded by MaxFairRequests.
FairBound == Len(requests') <= MaxFairRequests

FairNext ==
  \/ CategoriesSelect_useEffect /\ FairBound
  \/ HomeWrapper_useEffect /\ FairBound
  \/ \E q \in Queries : setQuery(q)
  \/ handleSubmit_empty
  \/ handleSubmit_dispatch /\ FairBound
  \/ \E value \in Options : handleChange(value) /\ FairBound
  \/ \E requestId \in 1..MaxFairRequests : Resolve(requestId)

FairSpec ==
  /\ Init
  /\ [][FairNext]_vars
  /\ WF_vars(HomeWrapper_useEffect)
  /\ \A requestId \in 1..MaxFairRequests : WF_vars(Resolve(requestId))

(***************************************************************************)
(* HomeWrapper: the three conditional blocks of the rendered view.         *)
(***************************************************************************)
\* {loading && <p>Loading...</p>}
ShowLoading == jokes.loading

\* {error && !loading && <p>{error}</p>}
ShowError == Truthy(jokes.error) /\ ~jokes.loading

\* {!loading && hasSearched && value && <JokeCard .../>}
ShowJoke == ~jokes.loading /\ jokes.hasSearched /\ Truthy(jokes.value)

(***************************************************************************)
(* Properties.                                                             *)
(***************************************************************************)
\* The step ran the reducer: every action dispatched to the store differs
\* from the one before it in its requestId or in its type.
Reduced ==
  \/ lastAction'.requestId # lastAction.requestId
  \/ lastAction'.type # lastAction.type

\* The step ran the reducer with an action of one of `types`.
Handled(types) == Reduced /\ lastAction'.type \in types

\* Some request of one of `thunks` has the given status.
SomeRequest(thunks, status) ==
  \E id \in DOMAIN requests :
    requests[id].thunk \in thunks /\ requests[id].status = status

\* C1: for each of the four thunks, the pending transition taken from any
\* reachable state sets loading = true and error = null and leaves value,
\* category, categories and hasSearched unchanged.
C1_PendingSetsLoadingClearsError ==
  [][Handled({<<t, "pending">> : t \in Thunks}) =>
       /\ jokes'.loading = TRUE
       /\ jokes'.error = Null
       /\ jokes'.value = jokes.value
       /\ jokes'.category = jokes.category
       /\ jokes'.categories = jokes.categories
       /\ jokes'.hasSearched = jokes.hasSearched]_vars

\* A search was dispatched while a joke of a category is displayed and an
\* earlier request had failed: loading is on and the joke fields are kept.
C1_Witness ==
  /\ lastAction.type = <<"jokes/searchJokes", "pending">>
  /\ SomeRequest(Thunks, "rejected")
  /\ jokes.loading = TRUE
  /\ jokes.error = Null
  /\ jokes.value \in JokeTexts
  /\ jokes.category # Null
  /\ jokes.hasSearched = TRUE

\* C2: a fulfilled fetchRandomJoke or searchJokes with payload X yields
\* value = X, category = null, error = null, loading = false and
\* hasSearched = true, with categories unchanged.
C2_RandomAndSearchFulfilled ==
  [][Handled({<<"jokes/fetchRandomJoke", "fulfilled">>,
              <<"jokes/searchJokes", "fulfilled">>}) =>
       /\ jokes'.value = lastAction'.payload
       /\ jokes'.category = Null
       /\ jokes'.error = Null
       /\ jokes'.loading = FALSE
       /\ jokes'.hasSearched = TRUE
       /\ jokes'.categories = jokes.categories]_vars

\* A search was fulfilled after a joke of a category had been fetched.
C2_Witness ==
  /\ lastAction.type = <<"jokes/searchJokes", "fulfilled">>
  /\ lastAction.payload \in JokeTexts
  /\ jokes.value = lastAction.payload
  /\ jokes.category = Null
  /\ jokes.categories # <<>>
  /\ SomeRequest({"jokes/fetchJokeByCategory"}, "fulfilled")

\* C3: a fulfilled fetchJokeByCategory(c) with joke text Y yields value = Y,
\* category = c (the category requested), error = null, loading = false and
\* hasSearched = true, with categories unchanged.
C3_ByCategoryFulfilled ==
  [][Handled({<<"jokes/fetchJokeByCategory", "fulfilled">>}) =>
       /\ jokes'.value = lastAction'.payload.joke
       /\ jokes'.category = requests[lastAction'.requestId].arg
       /\ jokes'.error = Null
       /\ jokes'.loading = FALSE
       /\ jokes'.hasSearched = TRUE
       /\ jokes'.categories = jokes.categories]_vars

\* A joke of the category "career" was fetched.
C3_Witness ==
  /\ lastAction.type = <<"jokes/fetchJokeByCategory", "fulfilled">>
  /\ requests[lastAction.requestId].arg = "career"
  /\ jokes.category = "career"
  /\ jokes.value = "Y"

\* The search request `requestId` is answered with an empty result list.
EmptySearchResolves(requestId) ==
  /\ requests[requestId].thunk = "jokes/searchJokes"
  /\ requests[requestId].status = "pending"
  /\ Settle(requestId,
            searchJokes(requests[requestId].arg, Data([result |-> <<>>]), 0))

\* C4: a searchJokes request that receives an empty result list resolves as
\* rejected, never as fulfilled, and leaves error = "No joke found for this
\* query", value = null, loading = false and hasSearched = true.
C4_EmptySearchRejected ==
  [][\A requestId \in DOMAIN requests :
       EmptySearchResolves(requestId) =>
         /\ lastAction'.type = <<"jokes/searchJokes", "rejected">>
         /\ requests'[requestId].status = "rejected"
         /\ jokes'.error = "No joke found for this query"
         /\ jokes'.value = Null
         /\ jokes'.loading = FALSE
         /\ jokes'.hasSearched = TRUE]_vars

\* A search was rejected with the message of the empty result list.
C4_Witness ==
  /\ lastAction.type = <<"jokes/searchJokes", "rejected">>
  /\ lastAction.payload = "No joke found for this query"
  /\ jokes.error = "No joke found for this query"
  /\ jokes.value = Null

\* C5: every rejection of fetchRandomJoke, fetchJokeByCategory or searchJokes
\* that carries no payload, whatever the message of the failure, sets error
\* to "Failed to fetch joke", value = null, loading = false and
\* hasSearched = true.
C5_GenericJokeFailure ==
  [][(Handled({<<t, "rejected">> : t \in JokeThunks})
        /\ lastAction'.payload = Undefined) =>
       /\ jokes'.error = "Failed to fetch joke"
       /\ jokes'.value = Null
       /\ jokes'.loading = FALSE
       /\ jokes'.hasSearched = TRUE]_vars

\* A search failed in the network after a joke had been displayed.
C5_Witness ==
  /\ lastAction.type = <<"jokes/searchJokes", "rejected">>
  /\ lastAction.payload = Undefined
  /\ lastAction.error.message = "Failed to fetch"
  /\ jokes.error = "Failed to fetch joke"
  /\ SomeRequest(JokeThunks, "fulfilled")

\* C6: a fulfilled fetchCategories with sequence S sets categories to exactly
\* S, loading = false and error = null, and leaves hasSearched, value and
\* category unchanged.
C6_CategoriesFulfilled ==
  [][Handled({<<"jokes/fetchCategories", "fulfilled">>}) =>
       /\ jokes'.categories = lastAction'.payload
       /\ jokes'.loading = FALSE
       /\ jokes'.error = Null
       /\ jokes'.hasSearched = jokes.hasSearched
       /\ jokes'.value = jokes.value
       /\ jokes'.category = jokes.category]_vars

\* The categories arrived, in the order of the response, before any joke.
C6_Witness ==
  /\ lastAction.type = <<"jokes/fetchCategories", "fulfilled">>
  /\ lastAction.payload = <<"career", "animal">>
  /\ jokes.categories = <<"career", "animal">>
  /\ jokes.hasSearched = FALSE

\* C7: a rejected fetchCategories sets error = "Failed to fetch categories"
\* and loading = false, and leaves value, category, categories and
\* hasSearched unchanged.
C7_CategoriesRejected ==
  [][Handled({<<"jokes/fetchCategories", "rejected">>}) =>
       /\ jokes'.error = "Failed to fetch categories"
       /\ jokes'.loading = FALSE
       /\ jokes'.value = jokes.value
       /\ jokes'.category = jokes.category
       /\ jokes'.categories = jokes.categories
       /\ jokes'.hasSearched = jokes.hasSearched]_vars

\* The categories failed after the random joke of the mount had arrived.
C7_Witness ==
  /\ lastAction.type = <<"jokes/fetchCategories", "rejected">>
  /\ jokes.error = "Failed to fetch categories"
  /\ jokes.value \in JokeTexts
  /\ jokes.hasSearched = TRUE

\* C8: hasSearched is monotonic: once true, no pending, fulfilled or rejected
\* event of any of the four thunks makes it false again.
C8_HasSearchedMonotonic ==
  [][jokes.hasSearched = TRUE => jokes'.hasSearched = TRUE]_vars

\* hasSearched is still true after a later request was dispatched.
C8_Witness ==
  /\ jokes.hasSearched = TRUE
  /\ lastAction.type \in {<<t, "pending">> : t \in Thunks}
  /\ SomeRequest(JokeThunks, "rejected")

\* C9 as stated: hasSearched is false only if no request of any of the four
\* kinds has completed yet.
C9_Original ==
  jokes.hasSearched = FALSE =>
    \A id \in DOMAIN requests : requests[id].status = "pending"

\* C9, amended: hasSearched is false only if no joke request
\* (fetchRandomJoke, fetchJokeByCategory, searchJokes) has completed yet; a
\* completed fetchCategories does not set it.
C9_HasSearchedAfterFirstJoke ==
  jokes.hasSearched = FALSE =>
    \A id \in DOMAIN requests :
      requests[id].thunk \in JokeThunks => requests[id].status = "pending"

\* The categories request has completed, no joke request has, and
\* hasSearched is still false.
C9_Witness ==
  /\ jokes.hasSearched = FALSE
  /\ \/ SomeRequest({"jokes/fetchCategories"}, "fulfilled")
     \/ SomeRequest({"jokes/fetchCategories"}, "rejected")
  /\ SomeRequest(JokeThunks, "pending")

\* C10 as stated: loading = true implies that exactly one request is
\* outstanding.
C10_Original ==
  jokes.loading = TRUE => Cardinality(InFlight) = 1

\* C10, amended: loading = true implies that at least one request is
\* outstanding (there may be several, as after the two dispatches at mount).
C10_LoadingImpliesInFlight ==
  jokes.loading = TRUE => Cardinality(InFlight) >= 1

\* loading is true while three requests are outstanding.
C10_Witness ==
  /\ jokes.loading = TRUE
  /\ Cardinality(InFlight) = 3

\* C11 as stated: whenever error is set, value is null.
C11_Original ==
  jokes.error # Null => jokes.value = Null

\* C11, amended: whenever error is set by a failed joke request (it is
\* non-null and is not "Failed to fetch categories"), value is null; a failed
\* fetchCategories sets error and leaves value as it is.
C11_JokeErrorImpliesNoValue ==
  (jokes.error # Null /\ jokes.error # "Failed to fetch categories") =>
    jokes.value = Null

\* A joke failure cleared a joke that an earlier request had fetched.
C11_Witness ==
  /\ jokes.error = "Failed to fetch joke"
  /\ jokes.value = Null
  /\ SomeRequest(JokeThunks, "fulfilled")

\* C12 as stated: at most one of the three render conditions holds.
C12_Original ==
  /\ ~(ShowLoading /\ ShowError)
  /\ ~(ShowLoading /\ ShowJoke)
  /\ ~(ShowError /\ ShowJoke)

\* C12, amended: the loading indicator excludes the other two blocks, and the
\* error text and the joke card are rendered together only when the error is
\* "Failed to fetch categories" (a failed fetchCategories keeps the joke).
C12_RenderExclusiveButCategoriesError ==
  /\ ~(ShowLoading /\ ShowError)
  /\ ~(ShowLoading /\ ShowJoke)
  /\ (ShowError /\ ShowJoke) => jokes.error = "Failed to fetch categories"

\* The error text of a joke failure is rendered alone, after a joke had been
\* fetched.
C12_Witness ==
  /\ ShowError
  /\ ~ShowJoke
  /\ ~ShowLoading
  /\ jokes.error = "No joke found for this query"
  /\ SomeRequest(JokeThunks, "fulfilled")

\* C13 as stated: in every reachable state at least one of the three render
\* conditions holds.
C13_Original ==
  ShowLoading \/ ShowError \/ ShowJoke

\* The last store event leaves something to render: a dispatch, a rejection,
\* or a fulfilled joke request that delivered a joke text.
LastEventRenders ==
  \/ lastAction.type[2] \in {"pending", "rejected"}
  \/ /\ lastAction.type[1] \in JokeThunks
     /\ lastAction.type[2] = "fulfilled"
     /\ Truthy(jokes.value)

\* C13, amended: at least one of the three render conditions holds in every
\* reachable state whose last store event was a dispatch, a rejection or a
\* fulfilled joke request that delivered a joke text.  Nothing need be
\* rendered in the initial state, after a fulfilled fetchCategories, or after
\* a joke response without a value.
C13_RenderExhaustiveAfterEvent ==
  LastEventRenders => (ShowLoading \/ ShowError \/ ShowJoke)

\* The first joke is rendered while the categories are still being fetched.
C13_Witness ==
  /\ lastAction.type = <<"jokes/fetchRandomJoke", "fulfilled">>
  /\ ShowJoke
  /\ ~ShowLoading
  /\ ~ShowError
  /\ InFlight # {}

\* The text consists of whitespace only (or is empty).
Blank(q) == \A i \in DOMAIN q : q[i] = Space

\* The step appended no request, or appended one of `thunk`.
AppendsOnly(thunk) ==
  \/ requests' = requests
  \/ requests'[Len(requests')].thunk = thunk

\* C14: submitting the search form dispatches searchJokes exactly once, with
\* the query as typed, when the trimmed query is non-empty, and dispatches
\* nothing and leaves the store unchanged when the query is empty or
\* whitespace only.
C14_SubmitDispatchesOnceOrNothing ==
  [][(AppendsOnly("jokes/searchJokes") /\ handleSubmit) =>
       IF Blank(query)
         THEN UNCHANGED <<requests, jokes, lastAction>>
         ELSE /\ Len(requests') = Len(requests) + 1
              /\ SubSeq(requests', 1, Len(requests)) = requests
              /\ requests'[Len(requests')] =
                   [thunk |-> "jokes/searchJokes", arg |-> query,
                    status |-> "pending"]
              /\ lastAction'.type = <<"jokes/searchJokes", "pending">>
              /\ lastAction'.arg = query]_vars

\* A search was dispatched with the padded query as typed.
C14_Witness ==
  /\ lastAction.type = <<"jokes/searchJokes", "pending">>
  /\ lastAction.arg = <<Space, "a", Space>>
  /\ query = <<Space, "a", Space>>
  /\ Len(requests) = 3
  /\ requests[3].thunk = "jokes/searchJokes"

\* The requests of `thunk` among `reqs`.
RequestsOf(reqs, thunk) == {id \in DOMAIN reqs : reqs[id].thunk = thunk}

\* C15: mount dispatches fetchCategories exactly once; after it, selecting
\* the default (empty) option dispatches nothing, and selecting a category c
\* dispatches exactly one more request, fetchJokeByCategory(c).
C15_SelectDispatchesOnceOrNothing ==
  [][/\ mounted' # "none" =>
          Cardinality(RequestsOf(requests', "jokes/fetchCategories")) = 1
     /\ \A value \in Options :
          (AppendsOnly("jokes/fetchJokeByCategory") /\ handleChange(value)) =>
            IF value = ""
              THEN UNCHANGED <<requests, jokes, lastAction>>
              ELSE /\ requests' = Append(requests,
                        [thunk |-> "jokes/fetchJokeByCategory", arg |-> value,
                         status |-> "pending"])
                   /\ lastAction'.type = <<"jokes/fetchJokeByCategory", "pending">>
                   /\ lastAction'.arg = value]_vars

\* The category "animal" was selected: one fetchJokeByCategory("animal")
\* follows the two dispatches of the mount.
C15_Witness ==
  /\ lastAction.type = <<"jokes/fetchJokeByCategory", "pending">>
  /\ lastAction.arg = "animal"
  /\ selected = "animal"
  /\ Len(requests) = 3
  /\ RequestsOf(requests, "jokes/fetchCategories") = {1}
  /\ RequestsOf(requests, "jokes/fetchJokeByCategory") = {3}

\* The joke text a fulfilled action of a joke thunk carries.
JokeOf(action) ==
  IF action.type[1] = "jokes/fetchJokeByCategory"
    THEN action.payload.joke
    ELSE action.payload

\* After a rejection the handlers still dispatch: a typed query can be
\* submitted and every listed category can be selected (as long as the
\* model's bound on the number of requests is not reached).
CanDispatchAfterFailure ==
  (SomeRequest(Thunks, "rejected") /\ Len(requests) < MaxRequests) =>
    /\ ~Blank(query) => ENABLED handleSubmit_dispatch
    /\ \A value \in Options \ {""} : ENABLED handleChange(value)

\* A joke request that is the only one in flight is fulfilled after some
\* request had been rejected: the failure is gone and the joke is stored.
LoneFulfilledRecovers ==
  (/\ SomeRequest(Thunks, "rejected")
   /\ Handled({<<t, "fulfilled">> : t \in JokeThunks})
   /\ InFlight = {lastAction'.requestId}) =>
    /\ jokes'.error = Null
    /\ jokes'.loading = FALSE
    /\ jokes'.value = JokeOf(lastAction')

\* C16: failures never leave the store stuck: from any reachable state in
\* which a request was rejected a joke request can still be dispatched, and
\* if it is the only request in flight and is fulfilled with X, the resulting
\* state has error = null, loading = false and value = X.
C16_RecoversAfterFailure ==
  /\ []CanDispatchAfterFailure
  /\ [][LoneFulfilledRecovers]_vars

\* A search dispatched by the user was fulfilled, alone in flight, after the
\* random joke of the mount had failed.
C16_Witness ==
  /\ lastAction.type = <<"jokes/searchJokes", "fulfilled">>
  /\ InFlight = {}
  /\ requests[2].status = "rejected"
  /\ jokes.value = "X"
  /\ jokes.error = Null
  /\ jokes.loading = FALSE

\* Every request dispatched has resolved (and the mount has dispatched).
Quiescent == requests # <<>> /\ InFlight = {}

\* The error a resolution writes: none when fulfilled, else its message.
ErrorWrittenBy(action) ==
  IF action.type[2] = "fulfilled" THEN Null
  ELSE IF action.type[1] = "jokes/fetchCategories"
    THEN "Failed to fetch categories"
  ELSE IF Truthy(action.payload) THEN action.payload
  ELSE "Failed to fetch joke"

\* C17: the last resolution wins regardless of dispatch order: once all
\* requests have resolved, loading and error are those written by the request
\* resolved last, and value is the payload of the joke request resolved last
\* if it was fulfilled, or null if it was rejected.
C17_LastResolutionWins ==
  Quiescent =>
    /\ jokes.loading = FALSE
    /\ jokes.error = ErrorWrittenBy(lastAction)
    /\ jokes.value = IF lastJokeAction.type[2] = "fulfilled"
                       THEN JokeOf(lastJokeAction) ELSE Null

\* Two overlapping searches and the categories: the search dispatched first
\* was fulfilled after the second one had failed, and the categories, failing
\* last, wrote the error.
C17_Witness ==
  /\ Quiescent
  /\ Len(requests) = 4
  /\ lastAction.type = <<"jokes/fetchCategories", "rejected">>
  /\ lastJokeAction.type = <<"jokes/searchJokes", "fulfilled">>
  /\ lastJokeAction.requestId = 3
  /\ requests[4].status = "rejected"
  /\ jokes.value = "Y"
  /\ jokes.error = "Failed to fetch categories"

\* The joke requests dispatched so far.
RequestsOfJokes == {id \in DOMAIN requests : requests[id].thunk \in JokeThunks}

\* The joke request dispatched last.
LatestJokeId ==
  CHOOSE id \in RequestsOfJokes :
    \A other \in RequestsOfJokes : other <= id

\* C18: out-of-order completion produces a stale result: whenever all
\* requests have resolved and the joke request fulfilled last was dispatched
\* before the most recently dispatched joke request, value and category are
\* those of that earlier request.  The witness is such a state.
C18_StaleResultShown ==
  (/\ Quiescent
   /\ lastJokeAction.type[2] = "fulfilled"
   /\ lastJokeAction.requestId < LatestJokeId) =>
    /\ jokes.value = JokeOf(lastJokeAction)
    /\ jokes.category =
         IF lastJokeAction.type[1] = "jokes/fetchJokeByCategory"
           THEN requests[lastJokeAction.requestId].arg
           ELSE Null

\* The joke of category "animal" (request 3) is displayed although the search
\* dispatched after it (request 4) was fulfilled as well, earlier.
C18_Witness ==
  /\ Quiescent
  /\ Len(requests) = 4
  /\ requests[3].thunk = "jokes/fetchJokeByCategory"
  /\ requests[4].thunk = "jokes/searchJokes"
  /\ requests[4].status = "fulfilled"
  /\ lastJokeAction.type[2] = "fulfilled"
  /\ lastJokeAction.requestId = 3
  /\ jokes.value = "X"
  /\ jokes.category = "animal"

\* C19: category is always the category associated with value: category is
\* non-null only if value is non-null and value was produced by a fulfilled
\* fetchJokeByCategory for that category; it is null after random and search
\* results.
C19_CategoryBelongsToValue ==
  /\ jokes.category # Null =>
       /\ jokes.value # Null
       /\ lastJokeAction.type = <<"jokes/fetchJokeByCategory", "fulfilled">>
       /\ jokes.category = requests[lastJokeAction.requestId].arg
       /\ jokes.value = lastJokeAction.payload.joke
  /\ lastJokeAction.type \in {<<"jokes/fetchRandomJoke", "fulfilled">>,
                              <<"jokes/searchJokes", "fulfilled">>} =>
       jokes.category = Null

\* Request `requestId` has resolved as fulfilled or rejected.
Resolved(requestId) ==
  /\ requestId \in DOMAIN requests
  /\ requests[requestId].status \in {"fulfilled", "rejected"}

\* C20: under fairness of the transport every dispatched request eventually
\* resolves as fulfilled or rejected, and in every reachable state with no
\* request in flight loading is false.
C20_EveryRequestResolves ==
  /\ \A requestId \in 1..MaxFairRequests :
       (requestId \in InFlight) ~> Resolved(requestId)
  /\ [](InFlight = {} => jokes.loading = FALSE)

\* All requests of a run with a user's request have resolved and the loading
\* indicator is off.
C20_Witness ==
  /\ Quiescent
  /\ Len(requests) >= 3
  /\ \A requestId \in DOMAIN requests : Resolved(requestId)
  /\ jokes.loading = FALSE

\* C21: a joke failure stays visible until the next request is dispatched:
\* in every state with no request in flight in which the joke request resolved
\* last was rejected, error is non-null, even when a fetchCategories request
\* overlapped with it and resolved afterwards.
C21_JokeFailureStaysVisible ==
  (/\ Quiescent
   /\ lastJokeAction.type[1] \in JokeThunks
   /\ lastJokeAction.type[2] = "rejected") =>
    jokes.error # Null

====
